---------------------------- MODULE Spec2Model ----------------------------
(***************************************************************************)
(* Model of package dbg (jayacarlson/dbg): the check / assert functions,   *)
(* the closer protocol, and the three gated emitters Dbg, DbgLvl, DbgMsk.  *)
(*                                                                         *)
(* One caller runs library calls one after the other.  A call is one       *)
(* action: it records what was called (call), everything the call did in   *)
(* order (events: closer invocations, writes to the two streams, a panic,  *)
(* a process exit) and what it returned (ret).  After a call that returned *)
(* the caller moves on to its next statement (Continue); a panic is        *)
(* recovered by a deferred recover() (Recover); an exit is final.          *)
(*                                                                         *)
(* Spec is that caller.  SpecColor is the caller switching colors with     *)
(* Color() / NoColor(); SpecRace is two callers inside bug.Echo at once,   *)
(* one statement of Echo and decExit per step.                             *)
(***************************************************************************)
EXTENDS Integers, Sequences, FiniteSets, TLC

VARIABLES
    status,     \* "ready" | "returned" | "panicked" | "exited"
    call,       \* the call just made: [op |-> ..., inputs]
    events,     \* what that call did, in order
    ret,        \* "true" | "false" | "void" (returned, no result) | "none"
    bug,        \* the caller's Dbg value: [Enabled, MaxOut]
    setMaxOut,  \* history: the value the caller last assigned to bug.MaxOut
    emitted,    \* history: messages emitted through bug's countdown since then
    colors,     \* the package's color variables: name -> escape sequence
    roundTrip,  \* history: [stage, before], the last NoColor() / Color() calls
    procs       \* concurrent callers of bug.Echo: caller -> [pc, tmp]

vars == <<status, call, events, ret, bug, setMaxOut, emitted, colors, roundTrip,
          procs>>

---------------------------------------------------------------------------
(* Bounds and input sets *)

MaxArgs == 2        \* longest variadic argument list of a package-level call
MaxErrs == 2        \* longest error list / ignore list
MaxOutBound == 2    \* largest MaxOut the caller assigns
MaxLevel == 9       \* largest DbgLvl level and largest required level
MaxMask == 10       \* largest DbgMsk mask and largest call mask (0xA)

SeqsUpTo(S, n) == UNION {[1..k -> S] : k \in 0..n}

\* values of type interface{} that can appear in a variadic argument list
StrV(s) == [t |-> "string", v |-> s]
ErrV(e) == [t |-> "error", v |-> e]
CloserV == [t |-> "func()", v |-> "closer"]
FnV == [t |-> "func(int)", v |-> "fn"]
NilV == [t |-> "nil", v |-> "nil"]

NilErr == "nil"
Errs == {"E1", "E2"}
ErrOrNil == Errs \cup {NilErr}
ErrOrNilV(e) == IF e = NilErr THEN NilV ELSE ErrV(e)

Vals == {StrV("fmt"), ErrV("E1"), CloserV, FnV, NilV}
ArgLists == SeqsUpTo(Vals, MaxArgs)
ChkArgs == {<<>>, <<StrV("fmt")>>, <<CloserV>>, <<StrV("fmt"), CloserV>>}
SevArgs == {<<>>, <<StrV("x")>>}
ErrLists == SeqsUpTo(ErrOrNil, MaxErrs)
IgnoreLists == SeqsUpTo(Errs, MaxErrs)
MaxOutVals == (-1)..MaxOutBound
Levels == 0..MaxLevel
Masks == 0..MaxMask

---------------------------------------------------------------------------
(* Events *)

Ev(k, stream, color, tag, loc, txt, code) ==
    [k |-> k, stream |-> stream, color |-> color, tag |-> tag, loc |-> loc,
     txt |-> txt, code |-> code]

CloserEv == Ev("closer", "", "", "", "", <<>>, 0)
ExitEv(code) == Ev("exit", "", "", "", "", <<>>, code)
\* mutant of PanicEv: panic(txt), the payload is the bare string
PanicEv_bareString(txt) == Ev("panic", "", "", "string", "", txt, 0)

\* panic(errors.New(txt)): the payload is an error value holding txt
PanicEv(txt) == Ev("panic", "", "", "error", "", txt, 0)

\* fmt.Sprintf(f, args...): the format string applied to its arguments
Sprintf(f, args) == <<[fmt |-> f, args |-> args]>>

\* output = fmt.Printf: a write to the primary stream
output(color, tag, loc, txt) == Ev("emit", "out", color, tag, loc, txt, 0)

\* outerr: a write to the error stream
outerr(color, tag, loc, txt) == Ev("emit", "err", color, tag, loc, txt, 0)

\* os.Exit(-1)
osExit == ExitEv(-1)

---------------------------------------------------------------------------
(* Helpers of the check engine *)

\* the frames on the stack while a locating helper runs, innermost first:
\* the helper, the public function of the package that called it, the
\* user's function that called that one, and the caller of the user's
CallStack == <<"@helper", "@dbg", "@caller", "@caller's caller">>

\* the frame skip levels above the innermost one of stack; ok is whether
\* the runtime can report that frame
frameOf(stack, skip, ok) ==
    IF ok /\ skip < Len(stack) THEN stack[skip + 1] ELSE ""

\* runtime.Caller(skip) called in a helper: the location of the frame skip
\* levels above the helper
runtimeCaller(skip, ok) == frameOf(CallStack, skip, ok)

\* funcAt(skip): the location skip levels above the function that calls it
funcAt(skip, ok) == frameOf(Tail(CallStack), skip, ok)

\* mutant of at: runtime.Caller(1), the frame of the public function
at_skipsOne(ok) == runtimeCaller(1, ok)

\* at(): the call-site tag, "" when runtime.Caller(2) reports no frame
at(ok) == runtimeCaller(2, ok)

\* mutant of genText: ": " is put between the error's text and the format
genText_separator(a) ==
    IF Len(a) > 0
    THEN IF a[1].t = "string"
         THEN Sprintf(a[1].v, Tail(a))
         ELSE IF a[1].t = "error"
              THEN Sprintf("%v", <<a[1]>>)
                   \o (IF Len(a) > 1 /\ a[2].t = "string"
                       THEN Sprintf(": ", <<>>)
                            \o Sprintf(a[2].v, SubSeq(a, 3, Len(a)))
                       ELSE <<>>)
              ELSE Sprintf("Check failed", <<>>)
    ELSE Sprintf("Check failed", <<>>)

genText(a) ==
    IF Len(a) > 0
    THEN IF a[1].t = "string"
         THEN Sprintf(a[1].v, Tail(a))
         ELSE IF a[1].t = "error"
              THEN Sprintf("%v", <<a[1]>>)
                   \o (IF Len(a) > 1 /\ a[2].t = "string"
                       THEN Sprintf(a[2].v, SubSeq(a, 3, Len(a)))
                       ELSE <<>>)
              ELSE Sprintf("Check failed", <<>>)
    ELSE Sprintf("Check failed", <<>>)

\* mutant of hasCloser: a trailing function of any signature is taken
hasCloser_anyFunc(c, a) ==
    Len(a) > 0 /\ c /\ a[Len(a)].t \in {"func()", "func(int)"}

\* is the last argument a func() the call will invoke as closer?
hasCloser(c, a) == Len(a) > 0 /\ c /\ a[Len(a)].t = "func()"

stripCloser(c, a) == IF hasCloser(c, a) THEN SubSeq(a, 1, Len(a) - 1) ELSE a

\* mutant of failed: the closer is taken off the list but never called
failed_dropsCloser(c, a) ==
    [ev |-> <<>>, txt |-> genText(stripCloser(c, a))]

\* mutant of failed: the closer is called whatever c says
failed_ignoresC(c, a) ==
    [ev |-> IF hasCloser(TRUE, a) THEN <<CloserEv>> ELSE <<>>,
     txt |-> genText(stripCloser(TRUE, a))]

\* failed(c, a...): [ev: the closer invocation, if any; txt: the text returned]
failed(c, a) ==
    [ev |-> IF hasCloser(c, a) THEN <<CloserEv>> ELSE <<>>,
     txt |-> genText(stripCloser(c, a))]

\* errored(c, e, a...)
errored(c, e, a) ==
    IF Len(a) > 0
    THEN [ev |-> IF hasCloser(c, a) THEN <<CloserEv>> ELSE <<>>,
          txt |-> genText(stripCloser(c, a))]
    ELSE [ev |-> <<>>, txt |-> Sprintf("%v", <<ErrV(e)>>)]

---------------------------------------------------------------------------
(* The color table *)

ColorVars == {"normColor", "msgColor", "infoColor", "noteColor", "warnColor",
              "ccnColor", "statColor", "failColor", "errColor", "fatalColor",
              "blkCAUTION", "blkWARNING", "blkFAULT"}

\* what Color() assigns
ColorTable ==
    [normColor |-> "\\033[0m", msgColor |-> "\\033[36m",
     infoColor |-> "\\033[32m", noteColor |-> "\\033[34m",
     warnColor |-> "\\033[33m", ccnColor |-> "\\033[93m",
     statColor |-> "\\033[90m", failColor |-> "\\033[35m",
     errColor |-> "\\033[31m", fatalColor |-> "\\033[1;41m",
     blkCAUTION |-> "\\033[1;30;103m", blkWARNING |-> "\\033[30;43m",
     blkFAULT |-> "\\033[30;105m"]

\* what NoColor() assigns, and the zero values the variables start with
NoColorTable == [v \in ColorVars |-> ""]

---------------------------------------------------------------------------
(* Concurrent callers *)

MaxSent == 4        \* most messages the concurrent callers write

Callers == {"g1", "g2"}

\* no caller is inside a call
Idle == [g \in Callers |-> [pc |-> "idle", tmp |-> 0]]

---------------------------------------------------------------------------
(* The caller *)

NoCall == [op |-> "none"]

Outcome(evs) ==
    IF Len(evs) > 0 /\ evs[Len(evs)].k = "panic" THEN "panicked"
    ELSE IF Len(evs) > 0 /\ evs[Len(evs)].k = "exit" THEN "exited"
    ELSE "returned"

RetOf(b) == IF b THEN "true" ELSE "false"

\* the call c did evs; r is what it returns if it returns
Done(c, evs, r) ==
    /\ call' = c
    /\ events' = evs
    /\ status' = Outcome(evs)
    /\ ret' = IF Outcome(evs) = "returned" THEN r ELSE "none"

Init ==
    /\ status = "ready"
    /\ call = NoCall
    /\ events = <<>>
    /\ ret = "none"
    /\ bug = [Enabled |-> FALSE, MaxOut |-> 0]
    /\ setMaxOut = 0
    /\ emitted = 0
    /\ colors \in {ColorTable, NoColorTable}
    /\ roundTrip = [stage |-> "none", before |-> colors]
    /\ procs = Idle

Forget ==
    /\ status' = "ready"
    /\ call' = NoCall
    /\ events' = <<>>
    /\ ret' = "none"
    /\ UNCHANGED <<bug, setMaxOut, emitted, colors, roundTrip, procs>>

\* the call returned: the caller goes on to its next statement
Continue == status = "returned" /\ Forget

\* a deferred function of the caller recovers the panic
Recover == status = "panicked" /\ Forget

---------------------------------------------------------------------------
(* Report-only checks *)
(* ok: whether runtime.Caller finds the caller's frame.  A call that does   *)
(* not reach at() does not consult it, so it is then fixed to TRUE.        *)

ExpErr ==
    /\ status = "ready"
    /\ \E e \in ErrOrNil, x \in ErrOrNil, ok \in BOOLEAN :
        /\ e = x => ok
        /\ LET f == errored(FALSE, e,
                        <<StrV("Expected error (%v) not given"), ErrOrNilV(x)>>)
               evs == IF e # x
                      THEN f.ev \o <<outerr("errColor", "ERR", at(ok), f.txt)>>
                      ELSE <<>>
           IN Done([op |-> "ExpErr", e |-> e, x |-> x, ok |-> ok], evs, RetOf(e # x))
        /\ UNCHANGED <<bug, setMaxOut, emitted, colors, roundTrip, procs>>

\* mutant of ChkTru: the message is written with output, not outerr
ChkTru_onOutput ==
    /\ status = "ready"
    /\ \E tst \in BOOLEAN, a \in ArgLists, ok \in BOOLEAN :
        /\ tst => ok
        /\ LET f == failed(FALSE, a)
               evs == IF ~tst
                      THEN f.ev \o <<output("failColor", "CHK", at(ok), f.txt)>>
                      ELSE <<>>
           IN Done([op |-> "ChkTru", tst |-> tst, a |-> a, ok |-> ok], evs, RetOf(~tst))
        /\ UNCHANGED <<bug, setMaxOut, emitted, colors, roundTrip, procs>>

ChkTru ==
    /\ status = "ready"
    /\ \E tst \in BOOLEAN, a \in ArgLists, ok \in BOOLEAN :
        /\ tst => ok
        /\ LET f == failed(FALSE, a)
               evs == IF ~tst
                      THEN f.ev \o <<outerr("failColor", "CHK", at(ok), f.txt)>>
                      ELSE <<>>
           IN Done([op |-> "ChkTru", tst |-> tst, a |-> a, ok |-> ok], evs, RetOf(~tst))
        /\ UNCHANGED <<bug, setMaxOut, emitted, colors, roundTrip, procs>>

\* mutant of ChkErr: the body of ChkErrX, the process exits after the message
ChkErr_exits ==
    /\ status = "ready"
    /\ \E e \in ErrOrNil, a \in ArgLists, ok \in BOOLEAN :
        /\ e = NilErr => ok
        /\ LET f == errored(FALSE, e, a)
               evs == IF e # NilErr
                      THEN f.ev \o <<outerr("errColor", "ERR", at(ok), f.txt),
                                     osExit>>
                      ELSE <<>>
           IN Done([op |-> "ChkErr", e |-> e, a |-> a, ok |-> ok], evs, RetOf(e # NilErr))
        /\ UNCHANGED <<bug, setMaxOut, emitted, colors, roundTrip, procs>>

ChkErr ==
    /\ status = "ready"
    /\ \E e \in ErrOrNil, a \in ArgLists, ok \in BOOLEAN :
        /\ e = NilErr => ok
        /\ LET f == errored(FALSE, e, a)
               evs == IF e # NilErr
                      THEN f.ev \o <<outerr("errColor", "ERR", at(ok), f.txt)>>
                      ELSE <<>>
           IN Done([op |-> "ChkErr", e |-> e, a |-> a, ok |-> ok], evs, RetOf(e # NilErr))
        /\ UNCHANGED <<bug, setMaxOut, emitted, colors, roundTrip, procs>>

\* mutant of ignored: only the first entry of the list is compared
ignored_firstOnly(e, i) == Len(i) > 0 /\ i[1] = e

\* the loop over the ignore list: is e identical to one of its entries?
ignored(e, i) == \E n \in 1..Len(i) : i[n] = e

ChkErrI ==
    /\ status = "ready"
    /\ \E e \in ErrOrNil, i \in IgnoreLists, a \in ArgLists, ok \in BOOLEAN :
        /\ (e = NilErr \/ ignored(e, i)) => ok
        /\ LET f == errored(FALSE, e, a)
               evs == IF e # NilErr /\ ~ignored(e, i)
                      THEN f.ev \o <<outerr("errColor", "ERR", at(ok), f.txt)>>
                      ELSE <<>>
           IN Done([op |-> "ChkErrI", e |-> e, i |-> i, a |-> a, ok |-> ok], evs,
                   RetOf(e # NilErr))
        /\ UNCHANGED <<bug, setMaxOut, emitted, colors, roundTrip, procs>>

\* mutant of errListEvents: the loop ends after the first non-nil element
errListEvents_stopsAtFirst(errs, n, a, ok) ==
    IF \E k \in n..Len(errs) : errs[k] # NilErr
    THEN LET k == CHOOSE j \in n..Len(errs) :
                      /\ errs[j] # NilErr
                      /\ \A m \in n..(j - 1) : errs[m] = NilErr
             f == errored(FALSE, errs[k], a)
         IN f.ev \o <<outerr("errColor", "ERR", at(ok), f.txt)>>
    ELSE <<>>

\* the messages of ChkErrList's loop over errs[n..], one per non-nil element
RECURSIVE errListEvents(_, _, _, _)
errListEvents(errs, n, a, ok) ==
    IF n > Len(errs) THEN <<>>
    ELSE (IF errs[n] # NilErr
          THEN LET f == errored(FALSE, errs[n], a)
               IN f.ev \o <<outerr("errColor", "ERR", at(ok), f.txt)>>
          ELSE <<>>)
         \o errListEvents(errs, n + 1, a, ok)

\* mutant of ChkErrList: the result is set for every element, nil or not
ChkErrList_flagsEveryEntry ==
    /\ status = "ready"
    /\ \E errs \in ErrLists, a \in ArgLists, ok \in BOOLEAN :
        /\ (\A n \in 1..Len(errs) : errs[n] = NilErr) => ok
        /\ Done([op |-> "ChkErrList", errs |-> errs, a |-> a, ok |-> ok],
                errListEvents(errs, 1, a, ok),
                RetOf(Len(errs) > 0))
        /\ UNCHANGED <<bug, setMaxOut, emitted, colors, roundTrip, procs>>

ChkErrList ==
    /\ status = "ready"
    /\ \E errs \in ErrLists, a \in ArgLists, ok \in BOOLEAN :
        /\ (\A n \in 1..Len(errs) : errs[n] = NilErr) => ok
        /\ Done([op |-> "ChkErrList", errs |-> errs, a |-> a, ok |-> ok],
                errListEvents(errs, 1, a, ok),
                RetOf(\E n \in 1..Len(errs) : errs[n] # NilErr))
        /\ UNCHANGED <<bug, setMaxOut, emitted, colors, roundTrip, procs>>

---------------------------------------------------------------------------
(* Checks that can take a closer: panic (P) and exit (X) variants *)

ChkTruP ==
    /\ status = "ready"
    /\ \E tst \in BOOLEAN, a \in ArgLists :
        /\ LET f == failed(TRUE, a)
               evs == IF ~tst THEN f.ev \o <<PanicEv(f.txt)>> ELSE <<>>
           IN Done([op |-> "ChkTruP", tst |-> tst, a |-> a], evs, "void")
        /\ UNCHANGED <<bug, setMaxOut, emitted, colors, roundTrip, procs>>

\* mutant of ChkTruX: the process exits without the message being written
ChkTruX_exitsSilently ==
    /\ status = "ready"
    /\ \E tst \in BOOLEAN, a \in ArgLists, ok \in BOOLEAN :
        /\ tst => ok
        /\ LET f == failed(TRUE, a)
               evs == IF ~tst THEN f.ev \o <<osExit>> ELSE <<>>
           IN Done([op |-> "ChkTruX", tst |-> tst, a |-> a, ok |-> ok], evs, "void")
        /\ UNCHANGED <<bug, setMaxOut, emitted, colors, roundTrip, procs>>

ChkTruX ==
    /\ status = "ready"
    /\ \E tst \in BOOLEAN, a \in ArgLists, ok \in BOOLEAN :
        /\ tst => ok
        /\ LET f == failed(TRUE, a)
               evs == IF ~tst
                      THEN f.ev \o <<outerr("failColor", "CHK", at(ok), f.txt),
                                     osExit>>
                      ELSE <<>>
           IN Done([op |-> "ChkTruX", tst |-> tst, a |-> a, ok |-> ok], evs, "void")
        /\ UNCHANGED <<bug, setMaxOut, emitted, colors, roundTrip, procs>>

\* mutant of ChkErrP: the text is built (and the closer run) before the test
ChkErrP_closerFirst ==
    /\ status = "ready"
    /\ \E e \in ErrOrNil, a \in ArgLists :
        /\ LET f == errored(TRUE, e, a)
               evs == IF e # NilErr THEN f.ev \o <<PanicEv(f.txt)>> ELSE f.ev
           IN Done([op |-> "ChkErrP", e |-> e, a |-> a], evs, "void")
        /\ UNCHANGED <<bug, setMaxOut, emitted, colors, roundTrip, procs>>

ChkErrP ==
    /\ status = "ready"
    /\ \E e \in ErrOrNil, a \in ArgLists :
        /\ LET f == errored(TRUE, e, a)
               evs == IF e # NilErr THEN f.ev \o <<PanicEv(f.txt)>> ELSE <<>>
           IN Done([op |-> "ChkErrP", e |-> e, a |-> a], evs, "void")
        /\ UNCHANGED <<bug, setMaxOut, emitted, colors, roundTrip, procs>>

ChkErrX ==
    /\ status = "ready"
    /\ \E e \in ErrOrNil, a \in ArgLists, ok \in BOOLEAN :
        /\ e = NilErr => ok
        /\ LET f == errored(TRUE, e, a)
               evs == IF e # NilErr
                      THEN f.ev \o <<outerr("errColor", "ERR", at(ok), f.txt),
                                     osExit>>
                      ELSE <<>>
           IN Done([op |-> "ChkErrX", e |-> e, a |-> a, ok |-> ok], evs, "void")
        /\ UNCHANGED <<bug, setMaxOut, emitted, colors, roundTrip, procs>>

Panic ==
    /\ status = "ready"
    /\ \E a \in ArgLists :
        /\ LET f == failed(TRUE, a)
           IN Done([op |-> "Panic", a |-> a], f.ev \o <<PanicEv(f.txt)>>, "void")
        /\ UNCHANGED <<bug, setMaxOut, emitted, colors, roundTrip, procs>>

Fatal ==
    /\ status = "ready"
    /\ \E a \in ArgLists :
        /\ LET f == failed(TRUE, a)
           IN Done([op |-> "Fatal", a |-> a],
                   f.ev \o <<outerr("fatalColor", "", "", f.txt), osExit>>, "void")
        /\ UNCHANGED <<bug, setMaxOut, emitted, colors, roundTrip, procs>>

PanicIf ==
    /\ status = "ready"
    /\ \E b \in BOOLEAN, a \in ArgLists :
        /\ LET f == failed(TRUE, a)
               evs == IF b THEN f.ev \o <<PanicEv(f.txt)>> ELSE <<>>
           IN Done([op |-> "PanicIf", b |-> b, a |-> a], evs, "void")
        /\ UNCHANGED <<bug, setMaxOut, emitted, colors, roundTrip, procs>>

FatalIf ==
    /\ status = "ready"
    /\ \E b \in BOOLEAN, a \in ArgLists :
        /\ LET f == failed(TRUE, a)
               evs == IF b
                      THEN f.ev \o <<outerr("fatalColor", "", "", f.txt), osExit>>
                      ELSE <<>>
           IN Done([op |-> "FatalIf", b |-> b, a |-> a], evs, "void")
        /\ UNCHANGED <<bug, setMaxOut, emitted, colors, roundTrip, procs>>

PanicIfErr ==
    /\ status = "ready"
    /\ \E e \in ErrOrNil, a \in ArgLists :
        /\ LET f == errored(TRUE, e, a)
               evs == IF e # NilErr THEN f.ev \o <<PanicEv(f.txt)>> ELSE <<>>
           IN Done([op |-> "PanicIfErr", e |-> e, a |-> a], evs, "void")
        /\ UNCHANGED <<bug, setMaxOut, emitted, colors, roundTrip, procs>>

FatalIfErr ==
    /\ status = "ready"
    /\ \E e \in ErrOrNil, a \in ArgLists :
        /\ LET f == errored(TRUE, e, a)
               evs == IF e # NilErr
                      THEN f.ev \o <<outerr("fatalColor", "", "", f.txt), osExit>>
                      ELSE <<>>
           IN Done([op |-> "FatalIfErr", e |-> e, a |-> a], evs, "void")
        /\ UNCHANGED <<bug, setMaxOut, emitted, colors, roundTrip, procs>>

---------------------------------------------------------------------------
(* Severity output, package level *)

\* one formatted line on a stream: out(color + fstr + normColor + "\n", a...)
say(stream, color, fstr, a) ==
    IF stream = "err"
    THEN outerr(color, "", "", Sprintf(fstr, a))
    ELSE output(color, "", "", Sprintf(fstr, a))

\* the package-level function op writes one line on stream in color
Says(op, stream, color) ==
    /\ status = "ready"
    /\ \E a \in SevArgs :
        /\ Done([op |-> op, a |-> a], <<say(stream, color, "msg", a)>>, "void")
        /\ UNCHANGED <<bug, setMaxOut, emitted, colors, roundTrip, procs>>

Echo == Says("Echo", "out", "")
Message == Says("Message", "out", "msgColor")
Info == Says("Info", "out", "infoColor")
Note == Says("Note", "out", "noteColor")
Status == Says("Status", "out", "statColor")
Warning == Says("Warning", "out", "warnColor")
Caution == Says("Caution", "out", "ccnColor")
Failed == Says("Failed", "err", "failColor")
Error == Says("Error", "err", "errColor")
Danger == Says("Danger", "out", "fatalColor")

\* a banner line on the primary stream:
\* output(color + label + normColor + " " + fstr + "\n", a...)
Banner(op, color, label) ==
    /\ status = "ready"
    /\ \E a \in SevArgs :
        /\ Done([op |-> op, a |-> a],
                <<output(color, label, "", Sprintf("msg", a))>>, "void")
        /\ UNCHANGED <<bug, setMaxOut, emitted, colors, roundTrip, procs>>

WARNING == Banner("WARNING", "blkWARNING", " WARNING ")
CAUTION == Banner("CAUTION", "blkCAUTION", " CAUTION ")
ERROR == Banner("ERROR", "fatalColor", "  ERROR  ")
FAULT == Banner("FAULT", "blkFAULT", "  FAULT  ")

---------------------------------------------------------------------------
(* MustHaveP and MustHave: none of the values may be nil *)

\* the message and the values left once a trailing string or error of a
\* list of more than one element is taken as the message
mustMsg(a) ==
    IF Len(a) > 1 /\ a[Len(a)].t \in {"string", "error"}
    THEN a[Len(a)].v
    ELSE "Missing value"

mustVals(a) ==
    IF Len(a) > 1 /\ a[Len(a)].t \in {"string", "error"}
    THEN SubSeq(a, 1, Len(a) - 1)
    ELSE a

\* the loop over the values: is one of them nil?
hasNil(a) == \E n \in 1..Len(a) : a[n].t = "nil"

\* the error MustHave returns for a nil value: the trailing error itself,
\* or a new error made of the trailing string or of "Missing value"
mustErr(a) ==
    IF Len(a) > 1 /\ a[Len(a)].t = "error"
    THEN a[Len(a)].v
    ELSE "errors.New(" \o mustMsg(a) \o ")"

MustHaveP ==
    /\ status = "ready"
    /\ \E a \in ArgLists :
        /\ LET f == failed(FALSE, <<StrV(mustMsg(a))>>)
               evs == IF hasNil(mustVals(a))
                      THEN f.ev \o <<PanicEv(f.txt)>>
                      ELSE <<>>
           IN Done([op |-> "MustHaveP", a |-> a], evs, "void")
        /\ UNCHANGED <<bug, setMaxOut, emitted, colors, roundTrip, procs>>

MustHave ==
    /\ status = "ready"
    /\ \E a \in ArgLists :
        /\ Done([op |-> "MustHave", a |-> a], <<>>,
                IF hasNil(mustVals(a)) THEN mustErr(a) ELSE NilErr)
        /\ UNCHANGED <<bug, setMaxOut, emitted, colors, roundTrip, procs>>

---------------------------------------------------------------------------
(* Color() and NoColor() *)

\* mutant of Color: statColor is left as it is
Color_keepsStatColor ==
    /\ status = "ready"
    /\ colors' = [ColorTable EXCEPT !.statColor = colors.statColor]
    /\ roundTrip' = IF roundTrip.stage = "off"
                    THEN [roundTrip EXCEPT !.stage = "on"]
                    ELSE [stage |-> "none", before |-> colors']
    /\ Done([op |-> "Color"], <<>>, "void")
    /\ UNCHANGED <<bug, setMaxOut, emitted, procs>>

\* Color(): every color variable gets its escape sequence.  roundTrip
\* notes that a Color() directly after a NoColor() closes a round trip.
Color ==
    /\ status = "ready"
    /\ colors' = ColorTable
    /\ roundTrip' = IF roundTrip.stage = "off"
                    THEN [roundTrip EXCEPT !.stage = "on"]
                    ELSE [stage |-> "none", before |-> colors']
    /\ Done([op |-> "Color"], <<>>, "void")
    /\ UNCHANGED <<bug, setMaxOut, emitted, procs>>

\* NoColor(): every color variable gets "".  roundTrip keeps the table
\* the call found.
NoColor ==
    /\ status = "ready"
    /\ colors' = NoColorTable
    /\ roundTrip' = [stage |-> "off", before |-> colors]
    /\ Done([op |-> "NoColor"], <<>>, "void")
    /\ UNCHANGED <<bug, setMaxOut, emitted, procs>>

---------------------------------------------------------------------------
(* Dbg: output gated by a flag, with a countdown to exit *)

\* the caller assigns bug.Enabled
SetEnabled ==
    /\ status = "ready"
    /\ \E b \in BOOLEAN :
        /\ bug' = [bug EXCEPT !.Enabled = b]
        /\ UNCHANGED <<status, call, events, ret, setMaxOut, emitted, colors, roundTrip, procs>>

\* the caller assigns bug.MaxOut
SetMaxOut ==
    /\ status = "ready"
    /\ \E n \in MaxOutVals :
        /\ bug' = [bug EXCEPT !.MaxOut = n]
        /\ setMaxOut' = n
        /\ emitted' = 0
        /\ UNCHANGED <<status, call, events, ret, colors, roundTrip, procs>>

\* mutant of decExit: the exit test compares with 1 after the decrement
decExit_oneEarly(d) ==
    IF d.MaxOut > 0
    THEN LET m == d.MaxOut - 1
         IN [d |-> [d EXCEPT !.MaxOut = m],
             ev |-> IF 1 = m
                    THEN <<say("err", "errColor", "--Countdown expired %s",
                               <<StrV("funcAt(2)")>>),
                           osExit>>
                    ELSE <<>>]
    ELSE [d |-> d, ev |-> <<>>]

\* mutant of decExit: the guard is MaxOut != 0, a negative MaxOut counts on
decExit_anyNonZero(d) ==
    IF d.MaxOut # 0
    THEN LET m == d.MaxOut - 1
         IN [d |-> [d EXCEPT !.MaxOut = m],
             ev |-> IF 0 = m
                    THEN <<say("err", "errColor", "--Countdown expired %s",
                               <<StrV("funcAt(2)")>>),
                           osExit>>
                    ELSE <<>>]
    ELSE [d |-> d, ev |-> <<>>]

\* (d *Dbg) decExit(): [d: the gate afterwards; ev: what it did]
decExit(d) ==
    IF d.MaxOut > 0
    THEN LET m == d.MaxOut - 1
         IN [d |-> [d EXCEPT !.MaxOut = m],
             ev |-> IF 0 = m
                    THEN <<say("err", "errColor", "--Countdown expired %s",
                               <<StrV("funcAt(2)")>>),
                           osExit>>
                    ELSE <<>>]
    ELSE [d |-> d, ev |-> <<>>]

\* history: one more message went out through the countdown (when on is true)
Counted(on) ==
    /\ setMaxOut' = setMaxOut
    /\ emitted' = IF on /\ setMaxOut > 0 /\ emitted <= MaxOutBound
                  THEN emitted + 1
                  ELSE emitted
    /\ UNCHANGED <<colors, roundTrip, procs>>

\* mutant of DbgSays: the method does not test d.Enabled
DbgSays_ungated(op, stream, color) ==
    /\ status = "ready"
    /\ \E a \in SevArgs :
        /\ Done([op |-> op, d |-> bug, a |-> a],
                <<say(stream, color, "msg", a)>> \o decExit(bug).ev, "void")
        /\ bug' = decExit(bug).d
        /\ Counted(TRUE)

\* the Dbg method op writes one line on stream in color, then counts down
DbgSays(op, stream, color) ==
    /\ status = "ready"
    /\ \E a \in SevArgs :
        /\ LET evs == IF bug.Enabled
                      THEN <<say(stream, color, "msg", a)>> \o decExit(bug).ev
                      ELSE <<>>
           IN Done([op |-> op, d |-> bug, a |-> a], evs, "void")
        /\ bug' = IF bug.Enabled THEN decExit(bug).d ELSE bug
        /\ Counted(bug.Enabled)

Dbg_Echo == DbgSays("Dbg.Echo", "out", "")
Dbg_Message == DbgSays("Dbg.Message", "out", "msgColor")
Dbg_Info == DbgSays("Dbg.Info", "out", "infoColor")
Dbg_Note == DbgSays("Dbg.Note", "out", "noteColor")
Dbg_Status == DbgSays("Dbg.Status", "out", "statColor")
Dbg_Warning == DbgSays("Dbg.Warning", "out", "warnColor")
Dbg_Caution == DbgSays("Dbg.Caution", "out", "ccnColor")
Dbg_Failed == DbgSays("Dbg.Failed", "err", "failColor")
Dbg_Error == DbgSays("Dbg.Error", "err", "errColor")
Dbg_Danger == DbgSays("Dbg.Danger", "out", "fatalColor")

DbgSevOps == {"Dbg.Echo", "Dbg.Message", "Dbg.Info", "Dbg.Note", "Dbg.Status",
              "Dbg.Warning", "Dbg.Caution", "Dbg.Failed", "Dbg.Error",
              "Dbg.Danger"}

Dbg_ChkTru ==
    /\ status = "ready"
    /\ \E tst \in BOOLEAN, a \in ChkArgs, ok \in BOOLEAN :
        /\ (tst \/ ~bug.Enabled) => ok
        /\ LET on == bug.Enabled /\ ~tst
               f == failed(FALSE, a)
               evs == IF on
                      THEN f.ev \o <<outerr("failColor", "CHK", at(ok), f.txt)>>
                           \o decExit(bug).ev
                      ELSE <<>>
           IN /\ Done([op |-> "Dbg.ChkTru", d |-> bug, tst |-> tst, a |-> a,
                       ok |-> ok],
                      evs, RetOf(~tst))
              /\ bug' = IF on THEN decExit(bug).d ELSE bug
              /\ Counted(on)

Dbg_ChkErr ==
    /\ status = "ready"
    /\ \E e \in ErrOrNil, a \in ChkArgs, ok \in BOOLEAN :
        /\ (e = NilErr \/ ~bug.Enabled) => ok
        /\ LET on == bug.Enabled /\ e # NilErr
               f == errored(FALSE, e, a)
               evs == IF on
                      THEN f.ev \o <<outerr("errColor", "ERR", at(ok), f.txt)>>
                           \o decExit(bug).ev
                      ELSE <<>>
           IN /\ Done([op |-> "Dbg.ChkErr", d |-> bug, e |-> e, a |-> a,
                       ok |-> ok],
                      evs, RetOf(e # NilErr))
              /\ bug' = IF on THEN decExit(bug).d ELSE bug
              /\ Counted(on)

Dbg_ChkErrI ==
    /\ status = "ready"
    /\ \E e \in ErrOrNil, i \in IgnoreLists, a \in ChkArgs, ok \in BOOLEAN :
        /\ (e = NilErr \/ ~bug.Enabled \/ ignored(e, i)) => ok
        /\ LET on == bug.Enabled /\ e # NilErr
               f == errored(FALSE, e, a)
               evs == IF on /\ ~ignored(e, i)
                      THEN f.ev \o <<outerr("errColor", "ERR", at(ok), f.txt)>>
                      ELSE <<>>
           IN Done([op |-> "Dbg.ChkErrI", d |-> bug, e |-> e, i |-> i, a |-> a,
                 ok |-> ok],
                   evs, RetOf(e # NilErr))
        /\ UNCHANGED <<bug, setMaxOut, emitted, colors, roundTrip, procs>>

---------------------------------------------------------------------------
(* DbgLvl: output gated by a level.  The receiver is passed by value: the  *)
(* method works on its copy d, and the call record keeps as "after" what   *)
(* the caller's gate holds when the call is over.                          *)

\* mutant of LvlEnabled: the comparison is the other way round
LvlEnabled_reversed(d, l) == d.Level > 0 /\ d.Level <= l

\* the condition every DbgLvl method tests: d.Level > 0 && d.Level >= l
LvlEnabled(d, l) == d.Level > 0 /\ d.Level >= l

LvlSays(op, stream, color) ==
    /\ status = "ready"
    /\ \E V \in Levels, l \in Levels, a \in SevArgs :
        /\ LET d == [Level |-> V]
               evs == IF LvlEnabled(d, l)
                      THEN <<say(stream, color, "msg", a)>>
                      ELSE <<>>
           IN Done([op |-> op, d |-> d, after |-> d, l |-> l, a |-> a], evs,
                   "void")
        /\ UNCHANGED <<bug, setMaxOut, emitted, colors, roundTrip, procs>>

DbgLvl_Echo == LvlSays("DbgLvl.Echo", "out", "")
DbgLvl_Message == LvlSays("DbgLvl.Message", "out", "msgColor")
DbgLvl_Info == LvlSays("DbgLvl.Info", "out", "infoColor")
DbgLvl_Note == LvlSays("DbgLvl.Note", "out", "noteColor")
DbgLvl_Status == LvlSays("DbgLvl.Status", "out", "statColor")
DbgLvl_Warning == LvlSays("DbgLvl.Warning", "out", "warnColor")
DbgLvl_Caution == LvlSays("DbgLvl.Caution", "out", "ccnColor")
DbgLvl_Failed == LvlSays("DbgLvl.Failed", "err", "failColor")
DbgLvl_Error == LvlSays("DbgLvl.Error", "err", "errColor")
DbgLvl_Danger == LvlSays("DbgLvl.Danger", "out", "fatalColor")

LvlSevOps == {"DbgLvl.Echo", "DbgLvl.Message", "DbgLvl.Info", "DbgLvl.Note",
              "DbgLvl.Status", "DbgLvl.Warning", "DbgLvl.Caution",
              "DbgLvl.Failed", "DbgLvl.Error", "DbgLvl.Danger"}

\* mutant of DbgLvl.ChkTru: the result is whether a message was written
DbgLvl_ChkTru_returnsReported ==
    /\ status = "ready"
    /\ \E V \in Levels, l \in Levels, tst \in BOOLEAN, a \in ChkArgs, ok \in BOOLEAN :
        /\ LET d == [Level |-> V]
               on == LvlEnabled(d, l) /\ ~tst
               f == failed(FALSE, a)
               evs == IF on
                      THEN f.ev \o <<outerr("failColor", "CHK", at(ok), f.txt)>>
                      ELSE <<>>
           IN /\ ~on => ok
              /\ Done([op |-> "DbgLvl.ChkTru", d |-> d, after |-> d, ok |-> ok,
                       l |-> l, tst |-> tst,
                       a |-> a], evs, RetOf(on))
        /\ UNCHANGED <<bug, setMaxOut, emitted, colors, roundTrip, procs>>

DbgLvl_ChkTru ==
    /\ status = "ready"
    /\ \E V \in Levels, l \in Levels, tst \in BOOLEAN, a \in ChkArgs, ok \in BOOLEAN :
        /\ LET d == [Level |-> V]
               on == LvlEnabled(d, l) /\ ~tst
               f == failed(FALSE, a)
               evs == IF on
                      THEN f.ev \o <<outerr("failColor", "CHK", at(ok), f.txt)>>
                      ELSE <<>>
           IN /\ ~on => ok
              /\ Done([op |-> "DbgLvl.ChkTru", d |-> d, after |-> d, ok |-> ok,
                       l |-> l, tst |-> tst,
                       a |-> a], evs, RetOf(~tst))
        /\ UNCHANGED <<bug, setMaxOut, emitted, colors, roundTrip, procs>>

DbgLvl_ChkErr ==
    /\ status = "ready"
    /\ \E V \in Levels, l \in Levels, e \in ErrOrNil, a \in ChkArgs, ok \in BOOLEAN :
        /\ LET d == [Level |-> V]
               on == LvlEnabled(d, l) /\ e # NilErr
               f == errored(FALSE, e, a)
               evs == IF on
                      THEN f.ev \o <<outerr("errColor", "ERR", at(ok), f.txt)>>
                      ELSE <<>>
           IN /\ ~on => ok
              /\ Done([op |-> "DbgLvl.ChkErr", d |-> d, after |-> d, ok |-> ok,
                       l |-> l, e |-> e,
                       a |-> a], evs, RetOf(e # NilErr))
        /\ UNCHANGED <<bug, setMaxOut, emitted, colors, roundTrip, procs>>

---------------------------------------------------------------------------
(* DbgMsk: output gated by a bit mask.  The receiver is passed by value. *)

\* x & y on unsigned integers
RECURSIVE BitAnd(_, _)
BitAnd(x, y) ==
    IF x = 0 \/ y = 0 THEN 0
    ELSE (x % 2) * (y % 2) + 2 * BitAnd(x \div 2, y \div 2)

\* mutant of MskEnabled: every bit of m has to be set in the gate's mask
MskEnabled_allBits(d, m) == m = BitAnd(d.Mask, m)

\* the condition every DbgMsk method tests: 0 != d.Mask&m
MskEnabled(d, m) == 0 # BitAnd(d.Mask, m)

MskSays(op, stream, color) ==
    /\ status = "ready"
    /\ \E K \in Masks, m \in Masks, a \in SevArgs :
        /\ LET d == [Mask |-> K]
               evs == IF MskEnabled(d, m)
                      THEN <<say(stream, color, "msg", a)>>
                      ELSE <<>>
           IN Done([op |-> op, d |-> d, after |-> d, m |-> m, a |-> a], evs,
                   "void")
        /\ UNCHANGED <<bug, setMaxOut, emitted, colors, roundTrip, procs>>

DbgMsk_Echo == MskSays("DbgMsk.Echo", "out", "")
DbgMsk_Message == MskSays("DbgMsk.Message", "out", "msgColor")
DbgMsk_Info == MskSays("DbgMsk.Info", "out", "infoColor")
DbgMsk_Note == MskSays("DbgMsk.Note", "out", "noteColor")
DbgMsk_Status == MskSays("DbgMsk.Status", "out", "statColor")
DbgMsk_Warning == MskSays("DbgMsk.Warning", "out", "warnColor")
DbgMsk_Caution == MskSays("DbgMsk.Caution", "out", "ccnColor")
DbgMsk_Failed == MskSays("DbgMsk.Failed", "err", "failColor")
DbgMsk_Error == MskSays("DbgMsk.Error", "err", "errColor")
DbgMsk_Danger == MskSays("DbgMsk.Danger", "out", "fatalColor")

MskSevOps == {"DbgMsk.Echo", "DbgMsk.Message", "DbgMsk.Info", "DbgMsk.Note",
              "DbgMsk.Status", "DbgMsk.Warning", "DbgMsk.Caution",
              "DbgMsk.Failed", "DbgMsk.Error", "DbgMsk.Danger"}

\* DbgMsk.ChkTru(m, l, tst, a...): the parameter l is not read
DbgMsk_ChkTru ==
    /\ status = "ready"
    /\ \E K \in Masks, m \in Masks, tst \in BOOLEAN, a \in ChkArgs, ok \in BOOLEAN :
        /\ LET d == [Mask |-> K]
               on == MskEnabled(d, m) /\ ~tst
               f == failed(FALSE, a)
               evs == IF on
                      THEN f.ev \o <<outerr("failColor", "CHK", at(ok), f.txt)>>
                      ELSE <<>>
           IN /\ ~on => ok
              /\ Done([op |-> "DbgMsk.ChkTru", d |-> d, after |-> d, ok |-> ok,
                       m |-> m, tst |-> tst,
                       a |-> a], evs, RetOf(~tst))
        /\ UNCHANGED <<bug, setMaxOut, emitted, colors, roundTrip, procs>>

\* DbgMsk.ChkErr(m, l, e, a...): the parameter l is not read
DbgMsk_ChkErr ==
    /\ status = "ready"
    /\ \E K \in Masks, m \in Masks, e \in ErrOrNil, a \in ChkArgs, ok \in BOOLEAN :
        /\ LET d == [Mask |-> K]
               on == MskEnabled(d, m) /\ e # NilErr
               f == errored(FALSE, e, a)
               evs == IF on
                      THEN f.ev \o <<outerr("errColor", "ERR", at(ok), f.txt)>>
                      ELSE <<>>
           IN /\ ~on => ok
              /\ Done([op |-> "DbgMsk.ChkErr", d |-> d, after |-> d, ok |-> ok,
                       m |-> m, e |-> e,
                       a |-> a], evs, RetOf(e # NilErr))
        /\ UNCHANGED <<bug, setMaxOut, emitted, colors, roundTrip, procs>>

---------------------------------------------------------------------------
(* Trace helpers *)

TrcArgs == {<<>>, <<StrV("fmt")>>, <<ErrV("E1")>>, <<NilV>>}

\* trc(a...): the line written after the location
trc(a) ==
    IF Len(a) > 0
    THEN IF a[1].t = "string"
         THEN output("msgColor", "", "", Sprintf(a[1].v, Tail(a)))
         ELSE IF a[1].t = "error"
              THEN output("errColor", "", "", Sprintf("%v", <<a[1]>>))
              ELSE IF a[1].t = "nil"
                   THEN output("infoColor", "", "", Sprintf("nil", <<>>))
                   ELSE output("", "", "", <<>>)
    ELSE output("", "", "", <<>>)

\* trcAt(a...): "TRC @ line in file " when the frame is known, then trc
trcAt(a, ok) ==
    (IF ok THEN <<output("", "TRC", runtimeCaller(2, ok), <<>>)>> ELSE <<>>)
    \o <<trc(a)>>

\* trcBefore(a...): "WAS @ line in file " when the frame is known, then trc
trcBefore(a, ok) ==
    (IF ok THEN <<output("", "WAS", runtimeCaller(3, ok), <<>>)>> ELSE <<>>)
    \o <<trc(a)>>

\* TRC(a...)
TRC ==
    /\ status = "ready"
    /\ \E a \in TrcArgs, ok \in BOOLEAN :
        /\ Done([op |-> "TRC", a |-> a, ok |-> ok], trcAt(a, ok), "void")
        /\ UNCHANGED <<bug, setMaxOut, emitted, colors, roundTrip, procs>>

\* TRCIF(b, a...)
TRCIF ==
    /\ status = "ready"
    /\ \E b \in BOOLEAN, a \in TrcArgs, ok \in BOOLEAN :
        /\ ~b => ok
        /\ Done([op |-> "TRCIF", b |-> b, a |-> a, ok |-> ok],
                IF b THEN trcAt(a, ok) ELSE <<>>, "void")
        /\ UNCHANGED <<bug, setMaxOut, emitted, colors, roundTrip, procs>>

\* TRCFROM(a...)
TRCFROM ==
    /\ status = "ready"
    /\ \E a \in TrcArgs, ok \in BOOLEAN :
        /\ Done([op |-> "TRCFROM", a |-> a, ok |-> ok], trcBefore(a, ok), "void")
        /\ UNCHANGED <<bug, setMaxOut, emitted, colors, roundTrip, procs>>

\* (d Dbg) TRC(a...)
Dbg_TRC ==
    /\ status = "ready"
    /\ \E a \in TrcArgs, ok \in BOOLEAN :
        /\ ~bug.Enabled => ok
        /\ Done([op |-> "Dbg.TRC", d |-> bug, a |-> a, ok |-> ok],
                IF bug.Enabled THEN trcAt(a, ok) ELSE <<>>, "void")
        /\ UNCHANGED <<bug, setMaxOut, emitted, colors, roundTrip, procs>>

\* (d Dbg) TRCFROM(a...)
Dbg_TRCFROM ==
    /\ status = "ready"
    /\ \E a \in TrcArgs, ok \in BOOLEAN :
        /\ ~bug.Enabled => ok
        /\ Done([op |-> "Dbg.TRCFROM", d |-> bug, a |-> a, ok |-> ok],
                IF bug.Enabled THEN trcBefore(a, ok) ELSE <<>>, "void")
        /\ UNCHANGED <<bug, setMaxOut, emitted, colors, roundTrip, procs>>

---------------------------------------------------------------------------
(* Utilities: who and where the caller is, and the stack trace *)

StackSlots == 10    \* callers := make([]uintptr, 10)

\* a call that writes nothing and returns the frame skip levels above it
Locates(op, skip) ==
    /\ status = "ready"
    /\ \E ok \in BOOLEAN :
        /\ Done([op |-> op, ok |-> ok], <<>>, frameOf(Tail(CallStack), skip, ok))
        /\ UNCHANGED <<bug, setMaxOut, emitted, colors, roundTrip, procs>>

\* IAm, IWas: runtime.Callers(2 / 3, pc) counts from runtime.Callers itself
IAm == Locates("IAm", 1)
IWas == Locates("IWas", 2)
\* ErrAt, ErrWasAt: runtime.Caller(1 / 2)
ErrAt == Locates("ErrAt", 1)
ErrWasAt == Locates("ErrWasAt", 2)

\* ImAt, WasAt: funcAt(1 / 2)
FuncAts(op, skip) ==
    /\ status = "ready"
    /\ \E ok \in BOOLEAN :
        /\ Done([op |-> op, ok |-> ok], <<>>, funcAt(skip, ok))
        /\ UNCHANGED <<bug, setMaxOut, emitted, colors, roundTrip, procs>>

ImAt == FuncAts("ImAt", 1)
WasAt == FuncAts("WasAt", 2)

\* Link() {}
Link ==
    /\ status = "ready"
    /\ Done([op |-> "Link"], <<>>, "void")
    /\ UNCHANGED <<bug, setMaxOut, emitted, colors, roundTrip, procs>>

\* StackTrace(): Message with the depth runtime.Callers reports, then one
\* Warning per frame the frame iterator yields before a frame without line
\* or the end.  depth and the number n of lines come from the runtime.
StackTrace ==
    /\ status = "ready"
    /\ \E depth \in 1..StackSlots, n \in 0..StackSlots :
        /\ Done([op |-> "StackTrace", depth |-> depth, n |-> n],
                <<say("out", "msgColor", "Depth: %d",
                      <<[t |-> "int", v |-> ToString(depth)]>>)>>
                \o [k \in 1..n |->
                       say("out", "warnColor", "  Func: %s - %d   %s",
                           <<[t |-> "frame", v |-> ToString(k)]>>)],
                "void")
        /\ UNCHANGED <<bug, setMaxOut, emitted, colors, roundTrip, procs>>

---------------------------------------------------------------------------
(* Two callers in bug.Echo at once.  Nothing in the library orders the     *)
(* reads and writes of d.MaxOut, so each statement of Dbg.Echo and of      *)
(* decExit is a step of its own, and d.MaxOut -= 1 is a read and a write.  *)

\* the caller g moves to pc; its other fields stay
Goto(g, pc) == procs' = [procs EXCEPT ![g].pc = pc]
Quiet == UNCHANGED <<status, call, events, ret, setMaxOut, colors, roundTrip>>

\* Echo: if d.Enabled {
Echo_enabled(g) ==
    /\ status = "ready" /\ procs[g].pc = "idle"
    /\ emitted < MaxSent
    /\ Goto(g, IF bug.Enabled THEN "output" ELSE "idle")
    /\ UNCHANGED <<bug, emitted>> /\ Quiet

\* Echo: output(fstr+"\n", a...)
Echo_output(g) ==
    /\ status = "ready" /\ procs[g].pc = "output"
    /\ emitted' = emitted + 1
    /\ Goto(g, "guard")
    /\ UNCHANGED bug /\ Quiet

\* decExit: if d.MaxOut > 0 {
decExit_guard(g) ==
    /\ status = "ready" /\ procs[g].pc = "guard"
    /\ Goto(g, IF bug.MaxOut > 0 THEN "load" ELSE "idle")
    /\ UNCHANGED <<bug, emitted>> /\ Quiet

\* decExit: d.MaxOut -= 1, the read
decExit_load(g) ==
    /\ status = "ready" /\ procs[g].pc = "load"
    /\ procs' = [procs EXCEPT ![g] = [pc |-> "store", tmp |-> bug.MaxOut]]
    /\ UNCHANGED <<bug, emitted>> /\ Quiet

\* decExit: d.MaxOut -= 1, the write
decExit_store(g) ==
    /\ status = "ready" /\ procs[g].pc = "store"
    /\ bug' = [bug EXCEPT !.MaxOut = procs[g].tmp - 1]
    /\ procs' = [procs EXCEPT ![g] = [pc |-> "test", tmp |-> 0]]
    /\ UNCHANGED emitted /\ Quiet

\* mutant of decExit_test: the test is 0 >= d.MaxOut
decExit_test_atOrBelowZero(g) ==
    /\ status = "ready" /\ procs[g].pc = "test"
    /\ Goto(g, IF 0 >= bug.MaxOut THEN "expired" ELSE "idle")
    /\ UNCHANGED <<bug, emitted>> /\ Quiet

\* decExit: if 0 == d.MaxOut {
decExit_test(g) ==
    /\ status = "ready" /\ procs[g].pc = "test"
    /\ Goto(g, IF 0 = bug.MaxOut THEN "expired" ELSE "idle")
    /\ UNCHANGED <<bug, emitted>> /\ Quiet

\* decExit: Error("--Countdown expired %s", funcAt(2))
decExit_notice(g) ==
    /\ status = "ready" /\ procs[g].pc = "expired"
    /\ Goto(g, "exit")
    /\ UNCHANGED <<bug, emitted>> /\ Quiet

\* decExit: os.Exit(-1) ends the process, the other caller included
decExit_exit(g) ==
    /\ status = "ready" /\ procs[g].pc = "exit"
    /\ status' = "exited"
    /\ UNCHANGED <<call, events, ret, bug, setMaxOut, emitted, colors, roundTrip,
                   procs>>

\* the caller has enabled bug and set MaxOut = N > 0 before the callers start
InitRace ==
    /\ status = "ready"
    /\ call = NoCall
    /\ events = <<>>
    /\ ret = "none"
    /\ \E N \in 1..MaxOutBound :
           /\ bug = [Enabled |-> TRUE, MaxOut |-> N]
           /\ setMaxOut = N
    /\ emitted = 0
    /\ colors \in {ColorTable, NoColorTable}
    /\ roundTrip = [stage |-> "none", before |-> colors]
    /\ procs = Idle

NextRace ==
    \E g \in Callers :
        \/ Echo_enabled(g)
        \/ Echo_output(g)
        \/ decExit_guard(g)
        \/ decExit_load(g)
        \/ decExit_store(g)
        \/ decExit_test(g)
        \/ decExit_notice(g)
        \/ decExit_exit(g)

SpecRace == InitRace /\ [][NextRace]_vars

Next ==
    \/ Continue
    \/ Recover
    \/ ExpErr
    \/ ChkTru
    \/ ChkErr
    \/ ChkErrI
    \/ ChkErrList
    \/ ChkTruP
    \/ ChkTruX
    \/ ChkErrP
    \/ ChkErrX
    \/ Panic
    \/ Fatal
    \/ PanicIf
    \/ FatalIf
    \/ PanicIfErr
    \/ FatalIfErr
    \/ Echo
    \/ Message
    \/ Info
    \/ Note
    \/ Status
    \/ Warning
    \/ Caution
    \/ Failed
    \/ Error
    \/ Danger
    \/ WARNING
    \/ CAUTION
    \/ ERROR
    \/ FAULT
    \/ MustHaveP
    \/ MustHave
    \/ IAm
    \/ IWas
    \/ ImAt
    \/ WasAt
    \/ ErrAt
    \/ ErrWasAt
    \/ Link
    \/ StackTrace
    \/ SetEnabled
    \/ SetMaxOut
    \/ Dbg_Echo
    \/ Dbg_Message
    \/ Dbg_Info
    \/ Dbg_Note
    \/ Dbg_Status
    \/ Dbg_Warning
    \/ Dbg_Caution
    \/ Dbg_Failed
    \/ Dbg_Error
    \/ Dbg_Danger
    \/ Dbg_ChkTru
    \/ Dbg_ChkErr
    \/ Dbg_ChkErrI
    \/ DbgLvl_Echo
    \/ DbgLvl_Message
    \/ DbgLvl_Info
    \/ DbgLvl_Note
    \/ DbgLvl_Status
    \/ DbgLvl_Warning
    \/ DbgLvl_Caution
    \/ DbgLvl_Failed
    \/ DbgLvl_Error
    \/ DbgLvl_Danger
    \/ DbgLvl_ChkTru
    \/ DbgLvl_ChkErr
    \/ DbgMsk_Echo
    \/ DbgMsk_Message
    \/ DbgMsk_Info
    \/ DbgMsk_Note
    \/ DbgMsk_Status
    \/ DbgMsk_Warning
    \/ DbgMsk_Caution
    \/ DbgMsk_Failed
    \/ DbgMsk_Error
    \/ DbgMsk_Danger
    \/ DbgMsk_ChkTru
    \/ DbgMsk_ChkErr
    \/ TRC
    \/ TRCIF
    \/ TRCFROM
    \/ Dbg_TRC
    \/ Dbg_TRCFROM

Spec == Init /\ [][Next]_vars

\* the color switches and the package-level writers that use the colors
NextColor ==
    \/ Continue
    \/ Color
    \/ NoColor
    \/ Echo
    \/ Message
    \/ Info
    \/ Note
    \/ Status
    \/ Warning
    \/ Caution
    \/ Failed
    \/ Error
    \/ Danger
    \/ WARNING
    \/ CAUTION
    \/ ERROR
    \/ FAULT

SpecColor == Init /\ [][NextColor]_vars

---------------------------------------------------------------------------
(* Vocabulary of the properties *)

TermOps == {"Panic", "Fatal", "PanicIf", "FatalIf", "PanicIfErr", "FatalIfErr",
            "ChkTruP", "ChkErrP", "ChkTruX", "ChkErrX"}

\* the terminating call c takes its failure path
Fails(c) ==
    CASE c.op \in {"Panic", "Fatal"} -> TRUE
      [] c.op \in {"PanicIf", "FatalIf"} -> c.b
      [] c.op \in {"ChkTruP", "ChkTruX"} -> ~c.tst
      [] c.op \in {"PanicIfErr", "FatalIfErr", "ChkErrP", "ChkErrX"} ->
            c.e # NilErr
      [] OTHER -> FALSE

ReportOps == {"ExpErr", "ChkTru", "ChkErr", "ChkErrI", "ChkErrList",
              "Dbg.ChkTru", "Dbg.ChkErr", "Dbg.ChkErrI",
              "DbgLvl.ChkTru", "DbgLvl.ChkErr", "DbgMsk.ChkTru", "DbgMsk.ChkErr"}

\* the Dbg methods that run the countdown after their message
DbgCountOps == DbgSevOps \cup {"Dbg.ChkTru", "Dbg.ChkErr"}
DbgOps == DbgCountOps \cup {"Dbg.ChkErrI", "Dbg.TRC", "Dbg.TRCFROM"}

Where(k) == {n \in 1..Len(events) : events[n].k = k}
Count(k) == Cardinality(Where(k))
EndsCloser(a) == Len(a) > 0 /\ a[Len(a)] = CloserV
IsIn(e, list) == \E n \in 1..Len(list) : list[n] = e
AllNil(list) == \A n \in 1..Len(list) : list[n] = NilErr

---------------------------------------------------------------------------
(* C1: a terminating call on its failure path whose last argument is a     *)
(* closer invokes the closer exactly once, before it emits the failure     *)
(* message and before it panics or exits.                                  *)
C1_CloserOnceBeforeTermination ==
    (call.op \in TermOps /\ Fails(call) /\ EndsCloser(call.a)) =>
        /\ Count("closer") = 1
        /\ Count("panic") + Count("exit") = 1
        /\ \A n \in 1..Len(events) :
               events[n].k \in {"emit", "panic", "exit"} =>
                   \E m \in Where("closer") : m < n
        /\ status \in {"panicked", "exited"}

C1_Witness ==
    /\ call.op = "ChkErrX" /\ call.e = "E1"
    /\ call.a = <<StrV("fmt"), CloserV>>
    /\ status = "exited"
    /\ Count("closer") = 1 /\ Count("emit") = 1

(* C2: ChkTru on a false condition and ChkErr on a non-nil error emit      *)
(* exactly one message, on the error stream, and return true.              *)
C2_FailedCheckReportsOnce ==
    ((call.op = "ChkTru" /\ ~call.tst) \/ (call.op = "ChkErr" /\ call.e # NilErr)) =>
        /\ Count("emit") = 1
        /\ \A n \in Where("emit") : events[n].stream = "err"
        /\ status = "returned"
        /\ ret = "true"

C2_Witness ==
    /\ call.op = "ChkErr" /\ call.e = "E2" /\ call.a = <<StrV("fmt")>>
    /\ Count("emit") = 1 /\ ret = "true"

(* C3: ChkTru on a true condition and ChkErr, ChkErrI, ChkErrList on nil   *)
(* errors emit nothing on either stream and return false.                  *)
C3_PassedCheckIsSilent ==
    (\/ call.op = "ChkTru" /\ call.tst
     \/ call.op \in {"ChkErr", "ChkErrI"} /\ call.e = NilErr
     \/ call.op = "ChkErrList" /\ AllNil(call.errs)) =>
        /\ events = <<>>
        /\ status = "returned"
        /\ ret = "false"

C3_Witness ==
    /\ call.op = "ChkErrList" /\ call.errs = <<NilErr, NilErr>>
    /\ call.a = <<StrV("fmt")>>
    /\ ret = "false"

(* C4: a terminating check whose condition passes invokes no closer, emits *)
(* nothing, neither panics nor exits, and returns to the caller.           *)
C4_PassedTerminatingCheckReturns ==
    (call.op \in TermOps /\ ~Fails(call)) =>
        /\ events = <<>>
        /\ status = "returned"
        /\ ret = "void"

C4_Witness ==
    /\ call.op = "ChkErrP" /\ call.e = NilErr
    /\ call.a = <<StrV("fmt"), CloserV>>
    /\ status = "returned"

(* C5: a report-only check, package level or on a gate, never invokes a    *)
(* trailing func() of its arguments, whether its condition fails or not.   *)
C5_ReportNeverCallsCloser ==
    call.op \in ReportOps => Count("closer") = 0

C5_Witness ==
    /\ call.op = "ChkTru" /\ ~call.tst /\ call.a = <<StrV("fmt"), CloserV>>
    /\ Count("emit") = 1
    /\ status = "returned"

(* C6: ChkErrI on a non-nil error returns true in every case; it emits     *)
(* nothing when the error is identical to an entry of the ignore list and  *)
(* exactly one message when it matches none (the empty list included).     *)
C6_IgnoreListSuppressesEmissionOnly ==
    (call.op = "ChkErrI" /\ call.e # NilErr) =>
        /\ status = "returned"
        /\ ret = "true"
        /\ Count("emit") = (IF IsIn(call.e, call.i) THEN 0 ELSE 1)
        /\ Len(events) = Count("emit")

C6_Witness ==
    /\ call.op = "ChkErrI" /\ call.e = "E1" /\ call.i = <<"E2", "E1">>
    /\ events = <<>>
    /\ ret = "true"

(* C7: the countdown of a Dbg ends the process exactly at the emission     *)
(* that takes MaxOut from 1 to 0.  After the caller sets MaxOut = N > 0,   *)
(* fewer than N caller messages have gone through the countdown while the  *)
(* process runs, the N-th is followed at once by the countdown notice and  *)
(* an exit with a non-zero status, nothing runs after the exit; a Dbg with *)
(* MaxOut = 0 never exits, however many messages it emits.                 *)
CountdownExit == status = "exited" /\ call.op \in DbgCountOps

C7_CountdownExitsAtZero ==
    /\ (setMaxOut > 0 /\ ~CountdownExit) =>
           /\ emitted < setMaxOut
           /\ bug.MaxOut = setMaxOut - emitted
    /\ CountdownExit =>
           /\ setMaxOut > 0
           /\ emitted = setMaxOut
           /\ call.d.MaxOut = 1 /\ bug.MaxOut = 0
           /\ Len(events) = 3
           /\ events[1].k = "emit"
           /\ events[2].k = "emit"
           /\ events[2].txt[1].fmt = "--Countdown expired %s"
           /\ events[3].k = "exit" /\ events[3].code # 0
    /\ (call.op \in DbgCountOps /\ call.d.MaxOut = 1 /\ Count("emit") > 0) =>
           status = "exited"
    /\ (call.op \in DbgCountOps /\ call.d.MaxOut = 0) =>
           status = "returned" /\ bug.MaxOut = 0
    /\ status = "exited" => ~ENABLED Next

C7_Witness ==
    /\ CountdownExit
    /\ call.op = "Dbg.Echo"
    /\ setMaxOut = 2 /\ emitted = 2

(* C8: the flag of a Dbg is read on every call.  A severity method and a   *)
(* trace method emit iff Enabled is true when they are called, a check     *)
(* emits iff Enabled is true and it has a failure to report; while Enabled *)
(* is false a call emits nothing and leaves MaxOut as it was.              *)
C8_FlagReadOnEveryCall ==
    call.op \in DbgOps =>
        /\ call.op \in DbgSevOps \cup {"Dbg.TRC", "Dbg.TRCFROM"} =>
               (Count("emit") > 0 <=> call.d.Enabled)
        /\ call.op = "Dbg.ChkTru" =>
               (Count("emit") > 0 <=> (call.d.Enabled /\ ~call.tst))
        /\ call.op = "Dbg.ChkErr" =>
               (Count("emit") > 0 <=> (call.d.Enabled /\ call.e # NilErr))
        /\ call.op = "Dbg.ChkErrI" =>
               (Count("emit") > 0 <=>
                    (call.d.Enabled /\ call.e # NilErr /\ ~IsIn(call.e, call.i)))
        /\ ~call.d.Enabled =>
               /\ events = <<>>
               /\ bug = call.d
               /\ status = "returned"
        /\ bug.Enabled = call.d.Enabled

C8_Witness ==
    /\ call.op = "Dbg.Error"
    /\ ~call.d.Enabled /\ call.d.MaxOut = 1
    /\ setMaxOut = 2 /\ emitted = 1
    /\ events = <<>>

(* C9: a DbgMsk severity method called with mask M on a gate with mask K   *)
(* emits exactly one message iff K and M share a bit, and nothing          *)
(* otherwise; with K = 0xA the masks 1, 4, 5 do not emit and 2, 3, 6, 7,   *)
(* 8, 9 do.                                                                *)
Bit(x, i) == (x \div (2 ^ i)) % 2
ShareBit(x, y) == \E i \in 0..MaxMask : Bit(x, i) = 1 /\ Bit(y, i) = 1

C9_MaskGateEmitsOnSharedBit ==
    call.op \in MskSevOps =>
        /\ status = "returned"
        /\ IF ShareBit(call.d.Mask, call.m)
           THEN Len(events) = 1 /\ events[1].k = "emit"
           ELSE events = <<>>
        /\ (call.d.Mask = 10 /\ call.m \in {1, 4, 5}) => events = <<>>
        /\ (call.d.Mask = 10 /\ call.m \in {2, 3, 6, 7, 8, 9}) => Len(events) = 1

C9_Witness ==
    /\ call.op = "DbgMsk.Danger"
    /\ call.d.Mask = 10 /\ call.m = 9
    /\ Len(events) = 1

(* C10: a DbgLvl severity method called with required level l on a gate    *)
(* with level V emits (one message) iff V > 0 and V >= l: nothing at       *)
(* V = 0, at V = 5 the levels 1..5 emit and 6..9 do not, and a call that   *)
(* emits at V emits at every higher V.                                     *)
C10_LevelGateEmitsAtOrBelowLevel ==
    call.op \in LvlSevOps =>
        /\ status = "returned"
        /\ IF call.d.Level > 0 /\ call.d.Level >= call.l
           THEN Len(events) = 1 /\ events[1].k = "emit"
           ELSE events = <<>>
        /\ call.d.Level = 0 => events = <<>>
        /\ (call.d.Level = 5 /\ call.l \in 1..5) => Len(events) = 1
        /\ (call.d.Level = 5 /\ call.l \in 6..9) => events = <<>>
        /\ Len(events) > 0 =>
               \A V \in Levels : V >= call.d.Level => LvlEnabled([Level |-> V], call.l)

C10_Witness ==
    /\ call.op = "DbgLvl.Warning"
    /\ call.d.Level = 5 /\ call.l = 5
    /\ Len(events) = 1

(* C11: every panic variant (Panic, PanicIf, PanicIfErr, ChkTruP, ChkErrP) *)
(* on its failure path raises one panic whose payload is an error value    *)
(* holding exactly the message built from the arguments, with no severity  *)
(* color, no check tag and no call-site location; it writes nothing to     *)
(* either stream, and the payload is never a bare string.                  *)
PanicOps == {"Panic", "PanicIf", "PanicIfErr", "ChkTruP", "ChkErrP"}

\* the message a terminating call c builds from its arguments
BuiltText(c) ==
    IF c.op \in {"PanicIfErr", "ChkErrP", "FatalIfErr", "ChkErrX"}
    THEN errored(TRUE, c.e, c.a).txt
    ELSE failed(TRUE, c.a).txt

C11_PanicPayloadIsError ==
    (call.op \in PanicOps /\ Fails(call)) =>
        /\ status = "panicked"
        /\ Count("panic") = 1
        /\ Count("emit") = 0 /\ Count("exit") = 0
        /\ \A n \in Where("panic") :
               /\ n = Len(events)
               /\ events[n].tag = "error"
               /\ events[n].tag # "string"
               /\ events[n].loc = "" /\ events[n].color = ""
               /\ events[n].txt = BuiltText(call)

C11_Witness ==
    /\ call.op = "PanicIfErr" /\ call.e = "E1" /\ call.a = <<StrV("fmt")>>
    /\ status = "panicked"
    /\ events = <<PanicEv(Sprintf("fmt", <<>>))>>

(* C12: an exit variant on its failure path writes exactly one message to  *)
(* the error stream and then ends the process with a non-zero status:      *)
(* ChkTruX and ChkErrX write it with their check tag and, when the frame of *)
(* the caller is known, the call site; Fatal, FatalIf(true) and FatalIfErr *)
(* on a non-nil error write the built message.  The message comes before   *)
(* the exit, and no statement of the caller runs after the call.           *)
ExitOps == {"Fatal", "FatalIf", "FatalIfErr", "ChkTruX", "ChkErrX"}

C12_ExitVariantReportsThenExits ==
    (call.op \in ExitOps /\ Fails(call)) =>
        /\ status = "exited"
        /\ Count("emit") = 1 /\ Count("exit") = 1 /\ Count("panic") = 0
        /\ Len(events) >= 2
        /\ LET msg == events[Len(events) - 1]
               end == events[Len(events)]
           IN /\ msg.k = "emit" /\ msg.stream = "err"
              /\ msg.txt = BuiltText(call)
              /\ end.k = "exit" /\ end.code # 0
              /\ call.op = "ChkTruX" => msg.tag = "CHK"
              /\ call.op = "ChkErrX" => msg.tag = "ERR"
              /\ (call.op \in {"ChkTruX", "ChkErrX"} /\ call.ok) =>
                     msg.loc = "@caller"
        /\ ~ENABLED Next

C12_Witness ==
    /\ call.op = "ChkTruX" /\ ~call.tst /\ call.ok /\ call.a = <<>>
    /\ status = "exited"
    /\ Len(events) = 2
    /\ events[1].k = "emit" /\ events[1].loc = "@caller"
    /\ events[2].k = "exit"

(* C13: ChkErrList visits every element of its list: it writes one ERR     *)
(* message per non-nil element, in list order (none is skipped after the   *)
(* first failure), writes nothing for a nil element, and returns true iff  *)
(* at least one element is non-nil.                                        *)
IsErr(e) == e # NilErr
NonNil(list) == SelectSeq(list, IsErr)

C13_ErrListReportsEveryError ==
    call.op = "ChkErrList" =>
        /\ status = "returned"
        /\ ret = RetOf(\E n \in 1..Len(call.errs) : call.errs[n] # NilErr)
        /\ Len(events) = Len(NonNil(call.errs))
        /\ \A k \in 1..Len(events) :
               /\ events[k].k = "emit"
               /\ events[k].tag = "ERR"
               /\ call.ok => events[k].loc = "@caller"
               /\ call.a = <<>> =>
                      events[k].txt = Sprintf("%v", <<ErrV(NonNil(call.errs)[k])>>)

C13_Witness ==
    /\ call.op = "ChkErrList" /\ call.errs = <<"E2", "E1">> /\ call.a = <<>>
    /\ Len(events) = 2
    /\ events[1].txt = Sprintf("%v", <<ErrV("E2")>>)
    /\ events[2].txt = Sprintf("%v", <<ErrV("E1")>>)
    /\ ret = "true"

(* C14: ExpErr(e, x) returns true iff e and x are not the identical error; *)
(* when they differ (one of them may be nil) it writes exactly one message *)
(* showing both the actual error e and the expected error x; when they are *)
(* identical (both may be nil) it writes nothing.                          *)
\* the text txt has the value v among the arguments it formats
Shows(txt, v) ==
    \E p \in 1..Len(txt) : \E n \in 1..Len(txt[p].args) : txt[p].args[n] = v

C14_ExpErrShowsBothErrors ==
    call.op = "ExpErr" =>
        /\ status = "returned"
        /\ ret = RetOf(call.e # call.x)
        /\ call.e = call.x => events = <<>>
        /\ call.e # call.x =>
               /\ Len(events) = 1
               /\ events[1].k = "emit"
               /\ Shows(events[1].txt, ErrOrNilV(call.e))
               /\ Shows(events[1].txt, ErrOrNilV(call.x))

(* C15, as claimed: after any report-only check (package level or on a     *)
(* Dbg, DbgLvl or DbgMsk gate in any state) has reported a failure, no     *)
(* panic is raised, the process does not exit, and the caller receives the *)
(* boolean.                                                                *)
C15_ReportOnlyNeverEscalates ==
    (call.op \in ReportOps /\ Count("emit") > 0) =>
        /\ Count("panic") = 0
        /\ Count("exit") = 0
        /\ status = "returned"
        /\ ret \in {"true", "false"}

(* C15, amended: a report-only check never panics, and it ends the process *)
(* in one case only: Dbg.ChkTru or Dbg.ChkErr reporting a failure on a     *)
(* gate whose MaxOut is 1, where the report is followed by the countdown   *)
(* exit.  In every other case (package level, DbgLvl, DbgMsk, Dbg.ChkErrI, *)
(* a Dbg with another MaxOut) the call returns the boolean to the caller.  *)
C15_ReportOnlyExitsOnlyByCountdown ==
    call.op \in ReportOps =>
        /\ Count("panic") = 0
        /\ status \in {"returned", "exited"}
        /\ status = "exited" <=>
               /\ call.op \in {"Dbg.ChkTru", "Dbg.ChkErr"}
               /\ Count("emit") > 0
               /\ call.d.MaxOut = 1
        /\ status = "returned" => ret \in {"true", "false"}

C15_Witness ==
    /\ call.op = "Dbg.ChkErr" /\ call.e = "E1"
    /\ call.d.Enabled /\ call.d.MaxOut = 2
    /\ Count("emit") = 1
    /\ status = "returned" /\ ret = "true"
    /\ bug.MaxOut = 1

(* C16: every message of severity Failed, Error or Danger (package level   *)
(* and on each of the three gates) and every check-failure message is      *)
(* written to the error stream; every message of severity Echo, Note,      *)
(* Info, Message, Status, Warning or Caution is written to the primary     *)
(* stream.                                                                 *)
FailSevOps == {"Failed", "Error", "Danger",
               "Dbg.Failed", "Dbg.Error", "Dbg.Danger",
               "DbgLvl.Failed", "DbgLvl.Error", "DbgLvl.Danger",
               "DbgMsk.Failed", "DbgMsk.Error", "DbgMsk.Danger"}
InfoSevOps == ({"Echo", "Message", "Info", "Note", "Status", "Warning",
                "Caution", "Failed", "Error", "Danger"}
               \cup DbgSevOps \cup LvlSevOps \cup MskSevOps) \ FailSevOps
CheckOps == ReportOps \cup {"ChkTruX", "ChkErrX"}

\* the message the call itself writes is its first write (a countdown
\* notice, if any, follows it)
C16_FailureSeveritiesOnErrorStream ==
    /\ (call.op \in FailSevOps \cup CheckOps /\ Count("emit") > 0) =>
           \A n \in Where("emit") : events[n].stream = "err"
    /\ (call.op \in InfoSevOps /\ Count("emit") > 0) =>
           events[1].k = "emit" /\ events[1].stream = "out"

(* C17, as claimed: from any color state the program can be in, the        *)
(* initial one included, NoColor() followed by Color() leaves every color  *)
(* variable equal to its value before the NoColor() call.                  *)
C17_ColorRoundTripFromAnyState ==
    roundTrip.stage = "on" =>
        \A v \in ColorVars : colors[v] = roundTrip.before[v]

(* C17, amended: from a state in which color is enabled (every color       *)
(* variable holds its escape sequence, as after Color()), NoColor()        *)
(* followed by Color() leaves every color variable equal to its value      *)
(* before the NoColor() call.                                              *)
ColorEnabled(t) == \A v \in ColorVars : t[v] # ""

C17_ColorRoundTripFromColored ==
    (roundTrip.stage = "on" /\ ColorEnabled(roundTrip.before)) =>
        \A v \in ColorVars : colors[v] = roundTrip.before[v]

C17_Witness ==
    /\ call.op = "Color" /\ status = "returned"
    /\ roundTrip.stage = "on"
    /\ ColorEnabled(roundTrip.before)
    /\ colors = roundTrip.before

(* C18: the text of a check message is chosen by the shape of the argument *)
(* list once a closer has been taken off: an empty list gives exactly      *)
(* "Check failed"; a list starting with a format string gives that string  *)
(* with the remaining elements substituted; a list starting with an error  *)
(* gives the error's text, immediately followed (no separator) by the      *)
(* substituted second element when that is a format string.                *)
TextOps == {"ChkTru", "ChkTruP", "ChkTruX", "Panic", "Fatal", "PanicIf",
            "FatalIf"}

\* the arguments of c once a terminating call has taken the closer off
Stripped(c) ==
    IF c.op \in TermOps /\ EndsCloser(c.a)
    THEN SubSeq(c.a, 1, Len(c.a) - 1)
    ELSE c.a

\* the positions of the writes and the panic of the call
Messages == {n \in 1..Len(events) : events[n].k \in {"emit", "panic"}}

C18_TextFollowsArgumentShape ==
    (call.op \in TextOps /\ Messages # {}) =>
        LET a == Stripped(call)
            txt == events[CHOOSE n \in Messages : \A m \in Messages : n <= m].txt
        IN /\ a = <<>> => txt = <<[fmt |-> "Check failed", args |-> <<>>]>>
           /\ (a # <<>> /\ a[1].t = "string") =>
                  txt = <<[fmt |-> a[1].v, args |-> Tail(a)]>>
           /\ (a # <<>> /\ a[1].t = "error") =>
                  /\ txt[1] = [fmt |-> "%v", args |-> <<a[1]>>]
                  /\ IF Len(a) > 1 /\ a[2].t = "string"
                     THEN /\ Len(txt) = 2
                          /\ txt[2] = [fmt |-> a[2].v,
                                        args |-> SubSeq(a, 3, Len(a))]
                     ELSE Len(txt) = 1

C18_Witness ==
    /\ call.op = "ChkTruP" /\ ~call.tst
    /\ call.a = <<ErrV("E1"), StrV("fmt")>>
    /\ status = "panicked"
    /\ events[1].txt = <<[fmt |-> "%v", args |-> <<ErrV("E1")>>],
                         [fmt |-> "fmt", args |-> <<>>]>>

(* C19: on an enabled Dbg with MaxOut > 0 every emission made through the  *)
(* gate takes exactly one off MaxOut: the ten severity methods, the        *)
(* failure reports of Dbg.ChkTru, Dbg.ChkErr and Dbg.ChkErrI, and Dbg.TRC  *)
(* and Dbg.TRCFROM; so a Dbg never emits more lines than its MaxOut before *)
(* the process exits.                                                      *)
C19_EveryGateEmissionCountsDown ==
    (/\ call.op \in DbgOps
     /\ call.d.Enabled /\ call.d.MaxOut > 0
     /\ Count("emit") > 0) =>
        /\ bug.MaxOut = call.d.MaxOut - 1
        /\ call.d.MaxOut = 1 => status = "exited"

(* C20: an error-bearing check (ChkErr, ChkErrI, ChkErrList, ChkErrP,      *)
(* ChkErrX, PanicIfErr, FatalIfErr) called with a non-nil error and no     *)
(* message arguments (no extra argument at all, or only a trailing closer) *)
(* reports the textual rendering of the error, never "Check failed".       *)
ErrTextOps == {"ChkErr", "ChkErrI", "ChkErrP", "ChkErrX", "PanicIfErr",
               "FatalIfErr"}

C20_BareErrorCheckShowsError ==
    /\ (/\ call.op \in ErrTextOps
        /\ call.e # NilErr
        /\ call.a \in {<<>>, <<CloserV>>}) =>
           \A n \in Messages :
               /\ events[n].txt = Sprintf("%v", <<ErrV(call.e)>>)
               /\ events[n].txt # Sprintf("Check failed", <<>>)
    /\ (call.op = "ChkErrList" /\ call.a \in {<<>>, <<CloserV>>}) =>
           \A n \in Messages :
               /\ events[n].txt = Sprintf("%v", <<ErrV(NonNil(call.errs)[n])>>)
               /\ events[n].txt # Sprintf("Check failed", <<>>)

(* C21: a terminating call invokes its trailing argument as closer only    *)
(* when that is a func(): a trailing value of any other kind (a function   *)
(* of another signature, a string, an error, nil) is never invoked and     *)
(* stays in the list the text is built from, and a func() that is not the  *)
(* last argument is never invoked.                                         *)
C21_OnlyTrailingFuncIsCloser ==
    (call.op \in TermOps /\ Fails(call)) =>
        /\ Count("closer") = (IF EndsCloser(call.a) THEN 1 ELSE 0)
        /\ Messages # {}
        /\ ~EndsCloser(call.a) =>
               LET txt == events[CHOOSE n \in Messages :
                                    \A m \in Messages : n <= m].txt
               IN txt = IF call.op \in ErrTextOps /\ call.a = <<>>
                        THEN Sprintf("%v", <<ErrV(call.e)>>)
                        ELSE genText(call.a)

C21_Witness ==
    /\ call.op = "FatalIf" /\ call.b
    /\ call.a = <<StrV("fmt"), FnV>>
    /\ status = "exited"
    /\ Count("closer") = 0
    /\ events[1].txt = <<[fmt |-> "fmt", args |-> <<FnV>>]>>

(* C22: no library call writes Dbg.Enabled, DbgLvl.Level or DbgMsk.Mask.   *)
(* The only gate field a call changes is Dbg.MaxOut, and only by taking    *)
(* one off it as part of an emission of a Dbg method on an enabled gate    *)
(* whose MaxOut is greater than zero.                                      *)
LvlOps == LvlSevOps \cup {"DbgLvl.ChkTru", "DbgLvl.ChkErr"}
MskOps == MskSevOps \cup {"DbgMsk.ChkTru", "DbgMsk.ChkErr"}

\* the step is a call into the library (not an assignment of the caller)
LibraryCall == status = "ready" /\ call' # NoCall

C22_LibraryWritesOnlyMaxOut ==
    [][LibraryCall =>
        /\ bug'.Enabled = bug.Enabled
        /\ \/ bug'.MaxOut = bug.MaxOut
           \/ /\ bug'.MaxOut = bug.MaxOut - 1
              /\ bug.Enabled /\ bug.MaxOut > 0
              /\ call'.op \in DbgOps
              /\ \E n \in 1..Len(events') : events'[n].k = "emit"
        /\ call'.op \in LvlOps \cup MskOps => call'.after = call'.d]_vars

C22_Witness ==
    /\ call.op = "Dbg.Note"
    /\ call.d = [Enabled |-> TRUE, MaxOut |-> 2]
    /\ bug = [Enabled |-> TRUE, MaxOut |-> 1]
    /\ Count("emit") = 1

(* C23: the countdown of a Dbg is an unsynchronized read-then-write.  When *)
(* two callers emit at once through one enabled Dbg with MaxOut = N > 0,   *)
(* some interleavings emit more than N caller messages before the process  *)
(* exits, and some drive MaxOut below zero so that the countdown exit      *)
(* never happens: once MaxOut is negative and no caller has already seen   *)
(* it at zero, the process never exits.                                    *)
NoneExpiring == \A g \in Callers : procs[g].pc \notin {"expired", "exit"}

C23_BelowZeroNeverExits ==
    []((bug.MaxOut < 0 /\ NoneExpiring) => [](status # "exited"))

\* MaxOut is below zero, more than N messages are out, nobody will exit
C23_Witness ==
    /\ bug.MaxOut < 0
    /\ emitted > setMaxOut
    /\ status = "ready"
    /\ \A g \in Callers : procs[g].pc = "idle"

\* the other interleaving: the process exits after more than N messages
C23_OverrunThenExit ==
    /\ status = "exited"
    /\ emitted > setMaxOut
    /\ bug.MaxOut = 0

(* C24: the location a public check or trace function prints is that of    *)
(* the user code that called it (the locating helper is called by the      *)
(* public function itself and skips 2 frames); TRCFROM prints the location *)
(* of the caller of that user function (3 frames).  When the runtime       *)
(* cannot report the frame, the location is left out and the message is    *)
(* written all the same.                                                   *)
TraceOps == {"TRC", "TRCIF", "TRCFROM", "Dbg.TRC", "Dbg.TRCFROM"}
FromOps == {"TRCFROM", "Dbg.TRCFROM"}
Tagged == {n \in Where("emit") : events[n].tag \in {"CHK", "ERR"}}

C24_LocationIsTheCallersFrame ==
    /\ call.op \in CheckOps =>
           /\ \A n \in Tagged :
                  events[n].loc = (IF call.ok THEN "@caller" ELSE "")
           /\ ~call.ok => Tagged # {}
    /\ call.op \in TraceOps =>
           /\ ~call.ok => events # <<>>
           /\ events # <<>> =>
                  /\ events[Len(events)].k = "emit"
                  /\ events[Len(events)].tag = "" /\ events[Len(events)].loc = ""
                  /\ Len(events) = (IF call.ok THEN 2 ELSE 1)
                  /\ call.ok =>
                         /\ events[1].k = "emit"
                         /\ events[1].tag =
                                (IF call.op \in FromOps THEN "WAS" ELSE "TRC")
                         /\ events[1].loc =
                                (IF call.op \in FromOps THEN "@caller's caller"
                                                        ELSE "@caller")

C24_Witness ==
    /\ call.op = "DbgMsk.ChkErr" /\ call.e = "E1" /\ call.ok
    /\ Len(events) = 1
    /\ events[1].tag = "ERR" /\ events[1].loc = "@caller"

\* the frame is not available: the message is written without location
C24_WitnessNoFrame ==
    /\ call.op = "TRCFROM" /\ ~call.ok
    /\ Len(events) = 1 /\ events[1].k = "emit"

(* C25: the boolean a gated check returns (Dbg.ChkTru, Dbg.ChkErr,         *)
(* Dbg.ChkErrI, DbgLvl.ChkTru, DbgLvl.ChkErr, DbgMsk.ChkTru,               *)
(* DbgMsk.ChkErr) depends on the condition only, never on the gate: in     *)
(* every gate state it is the value the ungated check returns for that     *)
(* condition (true iff the test is false, or the error non-nil), also when *)
(* the gate suppresses the message.  The one call that returns no boolean  *)
(* is the Dbg.ChkTru / Dbg.ChkErr report that ends the process by the      *)
(* countdown.                                                              *)
GatedChecks == {"Dbg.ChkTru", "Dbg.ChkErr", "Dbg.ChkErrI", "DbgLvl.ChkTru",
                "DbgLvl.ChkErr", "DbgMsk.ChkTru", "DbgMsk.ChkErr"}

\* the condition of the check c has failed
CondFailed(c) ==
    IF c.op \in {"Dbg.ChkTru", "DbgLvl.ChkTru", "DbgMsk.ChkTru"}
    THEN ~c.tst
    ELSE c.e # NilErr

C25_GatedCheckResultIgnoresGate ==
    call.op \in GatedChecks =>
        /\ status = "returned" => ret = RetOf(CondFailed(call))
        /\ status # "returned" =>
               /\ status = "exited"
               /\ call.op \in {"Dbg.ChkTru", "Dbg.ChkErr"}
               /\ call.d.Enabled /\ call.d.MaxOut = 1

C25_Witness ==
    /\ call.op = "DbgLvl.ChkTru" /\ ~call.tst
    /\ call.d.Level = 2 /\ call.l = 3
    /\ events = <<>>
    /\ ret = "true"

=============================================================================
